---- MODULE Spec2Model ----
(***************************************************************************)
(* Model of src/components.py: historical index components scraped from    *)
(* the revision history of a wiki page.                                    *)
(*                                                                         *)
(*   get_revisions_metadata        one metadata query to the wiki API      *)
(*   get_index_components_at       revision lookup, page fetch, table scan *)
(*   get_index_components_history  one get_index_components_at per date    *)
(*   components_to_separate_csv    one file per (date, symbols) pair       *)
(*   __main__                      the loop over wikipedia_pages           *)
(*                                                                         *)
(* Time is counted in ticks; TicksPerDay ticks make one calendar day.      *)
(* A Python str is a sequence of one-character strings.                    *)
(***************************************************************************)
EXTENDS Integers, Sequences, FiniteSets, TLC

VARIABLES
    wiki,                   \* the wiki: page title -> revisions, oldest first
    pc,                     \* position of the (single) thread of control
    stack,                  \* the functions being executed, innermost last
    error,                  \* the exception that ended the program ("" if none)
    inflight,               \* HTTP requests sent and not yet answered
    log,                    \* every HTTP request sent so far, in order
    start_date, freq,       \* arguments of get_index_components_history
    mi,                     \* __main__: position in wikipedia_pages.keys()
    index,                  \* the index being processed
    dirs, files,            \* the filesystem: directories, path -> content
    dates, di,              \* get_index_components_history: dates, loop position
    historical_components,  \* get_index_components_history: the dict being built
    components_dict,        \* the dict handed to components_to_separate_csv
    ci,                     \* components_to_separate_csv: loop position
    warnings,               \* the "Skipping date" lines printed
    when,                   \* get_index_components_at: argument (<<>> is None)
    page_title, rvdir, rvstart, rvlimit,  \* get_revisions_metadata: arguments
    revisions,              \* get_revisions_metadata: the list returned
    revision,               \* get_index_components_at: revisions[0] (<<>> unset)
    table,                  \* get_index_components_at: list from pd.read_html
    df                      \* get_index_components_at: DataFrame returned (<<>> unset)

vars == <<wiki, pc, stack, error, inflight, log, start_date, freq, mi, index,
          dirs, files, dates, di, historical_components, components_dict, ci,
          warnings, when, page_title, rvdir, rvstart, rvlimit, revisions,
          revision, table, df>>

(***************************************************************************)
(* Bounds of the model.                                                    *)
(***************************************************************************)
\* Ticks of one calendar day: 2015-01-01 00:00, 2015-01-01 12:00, ...
TicksPerDay == 2
\* The last tick, "today"; dates are the ticks 0..MaxTime.
MaxTime == 2
\* Most tables in one HTML document.
MaxTables == 2
\* Most table rows in one HTML document, over all its tables.
MaxRows == 2

Times == 0..MaxTime
today == MaxTime

(***************************************************************************)
(* Values: Python strings, and the cells of a table.                       *)
(***************************************************************************)
\* The characters used, in code point order: ',' < 'A' < 'B'.
Alphabet == <<",", "A", "B">>

CharOrd(c) == CHOOSE i \in 1..Len(Alphabet) : Alphabet[i] = c

\* Python's str.__lt__: lexicographic by code point, a proper prefix first.
RECURSIVE StrLess(_, _)
StrLess(a, b) ==
    IF b = <<>> THEN FALSE
    ELSE IF a = <<>> THEN TRUE
    ELSE IF Head(a) = Head(b) THEN StrLess(Tail(a), Tail(b))
    ELSE CharOrd(Head(a)) < CharOrd(Head(b))

\* A cell value: a Python object with its type.  t is the type name, v the
\* characters of a str, n the value of an int.
StrCell(s) == [t |-> "str", v |-> s, n |-> 0]
NaN == [t |-> "float", v |-> <<>>, n |-> 0]
IntCell(k) == [t |-> "int", v |-> <<>>, n |-> k]

\* isinstance(component, str)
IsStr(c) == c.t = "str"

\* What a cell of a symbol column can hold: a ticker, or NaN for an empty cell
\* (pd.read_html parses an empty cell as NaN).
Cells == {StrCell(<<"A">>), StrCell(<<"B", "A">>), NaN}

(***************************************************************************)
(* HTML documents as pd.read_html sees them: a list of tables.  A table is *)
(* its column names and the cells of its symbol column (of its first       *)
(* column when it has no symbol column), top to bottom; the other cells    *)
(* play no part in the code and are left out.                              *)
(***************************************************************************)
Headers == {{"Note"}, {"Symbol", "Security"}, {"Ticker symbol", "Security"}}

SeqsUpTo(S, n) == UNION {[1..k -> S] : k \in 0..n}

TablesWithin(budget) ==
    {[columns |-> h, cells |-> c] : h \in Headers, c \in SeqsUpTo(Cells, budget)}

\* The documents of exactly n tables holding at most budget rows in all.
RECURSIVE DocsOf(_, _)
DocsOf(n, budget) ==
    IF n = 0 THEN {<<>>}
    ELSE UNION {{<<t>> \o d : d \in DocsOf(n - 1, budget - Len(t.cells))} :
                t \in TablesWithin(budget)}

Docs == UNION {DocsOf(n, MaxRows) : n \in 0..MaxTables}

(***************************************************************************)
(* DataFrames: the column names, the index labels and the index name.      *)
(***************************************************************************)
\* A table as parsed: RangeIndex 0..n-1, no index name.
Frame(t) ==
    [columns |-> t.columns,
     index |-> [k \in 1..Len(t.cells) |-> IntCell(k - 1)],
     name |-> ""]

\* df.set_index(key): the cells of column key become the index labels.
set_index(t, key) ==
    [columns |-> t.columns \ {key}, index |-> t.cells, name |-> key]

\* Order of index labels under sort_index: NaN last, strings by str.__lt__,
\* integers by value.
CellLess(a, b) ==
    IF a.t = "float" THEN FALSE
    ELSE IF b.t = "float" THEN TRUE
    ELSE IF a.t = "int" /\ b.t = "int" THEN a.n < b.n
    ELSE StrLess(a.v, b.v)

RECURSIVE Insert(_, _)
Insert(c, s) ==
    IF s = <<>> THEN <<c>>
    ELSE IF CellLess(c, Head(s)) THEN <<c>> \o s
    ELSE <<Head(s)>> \o Insert(c, Tail(s))

RECURSIVE SortCells(_)
SortCells(s) == IF s = <<>> THEN <<>> ELSE Insert(Head(s), SortCells(Tail(s)))

\* df.sort_index(): rows reordered by index label, ascending.
sort_index(d) == [d EXCEPT !.index = SortCells(d.index)]

\* The loop without its break statements: the last table with a symbol column.
RECURSIVE ScanTablesNoBreak(_, _)
ScanTablesNoBreak(tbls, j) ==
    LET rest == IF j = Len(tbls) THEN Frame(tbls[j])
                ELSE ScanTablesNoBreak(tbls, j + 1)
    IN IF rest.name # "" THEN rest
       ELSE IF "Symbol" \in tbls[j].columns THEN set_index(tbls[j], "Symbol")
       ELSE IF "Ticker symbol" \in tbls[j].columns
           THEN set_index(tbls[j], "Ticker symbol")
       ELSE rest

\* The for loop of get_index_components_at from table[j] on: the DataFrame the
\* name df is bound to when the loop ends.
RECURSIVE ScanTables(_, _)
ScanTables(tbls, j) ==
    IF "Symbol" \in tbls[j].columns THEN set_index(tbls[j], "Symbol")
    ELSE IF "Ticker symbol" \in tbls[j].columns
        THEN set_index(tbls[j], "Ticker symbol")
    ELSE IF j = Len(tbls) THEN Frame(tbls[j])
    ELSE ScanTables(tbls, j + 1)

\* Lines 98-106 on a non-empty list of tables: loop, rename the index, sort.
SelectTable(tbls) == sort_index([ScanTables(tbls, 1) EXCEPT !.name = "Symbol"])

(***************************************************************************)
(* Dates.                                                                  *)
(***************************************************************************)
\* utils.isoformat(date): "YYYY-MM-DDTHH:MM:SSZ", as <<day, time of day>>.
isoformat(t) == <<t \div TicksPerDay, t % TicksPerDay>>

\* str(date) of a pandas Timestamp: "YYYY-MM-DD HH:MM:SS", as its two
\* space-separated words.
DateStr(t) == <<t \div TicksPerDay, t % TicksPerDay>>

\* date.split()[0]
FormattedDate(key) == key[1]

\* pd.date_range(start, end, freq): start, start + freq, ... up to end.
RECURSIVE date_range(_, _, _)
date_range(start, end, step) ==
    IF start > end THEN <<>>
    ELSE <<start>> \o date_range(start + step, end, step)

(***************************************************************************)
(* The wiki.                                                               *)
(***************************************************************************)
\* wikipedia_pages, its first two entries in key order.
IndexKeys == <<"SPX", "NASDAQ">>
wikipedia_pages ==
    [i \in {"SPX", "NASDAQ"} |->
        IF i = "SPX" THEN "List of S&P 500 companies" ELSE "Nasdaq-100#Components"]
Pages == {wikipedia_pages[i] : i \in DOMAIN wikipedia_pages}

\* Timestamps are compared as ISO-8601 strings are: date first, then time.
StampLeq(a, b) == a[1] < b[1] \/ (a[1] = b[1] /\ a[2] <= b[2])

Reverse(s) == [k \in 1..Len(s) |-> s[Len(s) + 1 - k]]
Take(s, n) == SubSeq(s, 1, IF n < Len(s) THEN n ELSE Len(s))

\* The revisions the API lists for query q over the revisions hist of a page:
\* those on the rvdir side of rvstart, nearest to rvstart first, rvlimit at most.
ApiRevisions(hist, q) ==
    LET InRange(r) ==
            \/ q.rvstart = <<>>
            \/ q.rvdir = "older" /\ StampLeq(r.timestamp, q.rvstart[1])
            \/ q.rvdir = "newer" /\ StampLeq(q.rvstart[1], r.timestamp)
        sel == SelectSeq(hist, InRange)
        ord == IF q.rvdir = "older" THEN Reverse(sel) ELSE sel
        meta == [k \in 1..Len(ord) |->
                    [revid |-> ord[k].revid, timestamp |-> ord[k].timestamp]]
    IN Take(meta, q.rvlimit)

\* Documents the pages of the full run hold, revision after revision: a legend
\* table before the components table, a page with only a legend table, a page
\* without any table.
PageDocs ==
    << <<[columns |-> {"Note"}, cells |-> <<>>],
         [columns |-> {"Symbol", "Security"},
          cells |-> <<StrCell(<<"B", "A">>), StrCell(<<"A">>)>>]>>,
       <<[columns |-> {"Note"}, cells |-> <<StrCell(<<"A">>)>>]>>,
       <<>> >>

\* The ticks of S, ascending.
RECURSIVE Ascending(_)
Ascending(S) ==
    IF S = {} THEN <<>>
    ELSE LET m == CHOOSE x \in S : \A y \in S : x <= y
         IN <<m>> \o Ascending(S \ {m})

\* A page history with one revision at each tick of S; revision ids count up
\* and the documents cycle through PageDocs from position off + 1.
History(S, off) ==
    LET ts == Ascending(S)
    IN [k \in 1..Len(ts) |->
           [revid |-> k,
            timestamp |-> isoformat(ts[k]),
            html |-> PageDocs[((k - 1 + off) % Len(PageDocs)) + 1]]]

(***************************************************************************)
(* Helpers of the control flow.                                            *)
(***************************************************************************)
Top(s) == IF s = <<>> THEN "" ELSE s[Len(s)]
Pop(s) == SubSeq(s, 1, Len(s) - 1)
Caller(s) == IF Len(s) >= 2 THEN s[Len(s) - 1] ELSE ""

\* dict[key] = value on a dict kept as its items in insertion order.
Put(d, k, v) ==
    IF \E i \in 1..Len(d) : d[i].key = k
    THEN [i \in 1..Len(d) |-> IF d[i].key = k THEN [key |-> k, value |-> v] ELSE d[i]]
    ELSE Append(d, [key |-> k, value |-> v])

\* ','.join(components_list)
RECURSIVE Join(_)
Join(l) ==
    IF l = <<>> THEN <<>>
    ELSE IF Len(l) = 1 THEN l[1].v
    ELSE l[1].v \o <<",">> \o Join(Tail(l))

\* f"{index}/{index}_{formatted_date}.csv"
Path(i, fd) == [dir |-> i, name |-> <<i, fd>>]

\* query_params built without the rvstart entry.
query_params_no_rvstart(title, start, dir, limit) ==
    [url |-> "api.php", titles |-> title, oldid |-> 0, rvdir |-> dir,
     rvlimit |-> limit, rvstart |-> <<>>]

\* query_params of get_revisions_metadata; rvstart is left out when None.
query_params(title, start, dir, limit) ==
    [url |-> "api.php", titles |-> title, oldid |-> 0, rvdir |-> dir,
     rvlimit |-> limit,
     rvstart |-> IF start = <<>> THEN <<>> ELSE <<isoformat(start[1])>>]

\* The URL pd.read_html fetches: title and oldid.
page_url(title, revid) ==
    [url |-> "index.php", titles |-> title, oldid |-> revid, rvdir |-> "",
     rvlimit |-> 0, rvstart |-> <<>>]

\* The document the wiki holds for a revision id of a page.
HtmlOf(hist, revid) ==
    LET k == CHOOSE i \in 1..Len(hist) : hist[i].revid = revid
    IN hist[k].html

\* An exception nobody catches: the program ends.
Raise(e) == pc' = "raised" /\ error' = e

(***************************************************************************)
(* get_revisions_metadata                                                  *)
(***************************************************************************)
\* Lines 50-71: build query_params and send the GET.
MetaSend ==
    /\ pc = "meta"
    /\ LET q == query_params(page_title, rvstart, rvdir, rvlimit)
       IN /\ inflight' = Append(inflight, q)
          /\ log' = Append(log, q)
    /\ pc' = "meta_wait"
    /\ UNCHANGED <<wiki, stack, error, start_date, freq, mi, index, dirs, files,
                   dates, di, historical_components, components_dict, ci,
                   warnings, when, page_title, rvdir, rvstart, rvlimit,
                   revisions, revision, table, df>>

\* Lines 71-78: the answer arrives; data["query"]["pages"][0]['revisions'].
\* A page with no revision in range comes back without a 'revisions' entry,
\* or with an empty one.
MetaReceive ==
    /\ pc = "meta_wait"
    /\ inflight # <<>>
    /\ LET found == ApiRevisions(wiki[inflight[1].titles], inflight[1])
       IN \E listed \in (IF found = <<>> THEN {TRUE, FALSE} ELSE {TRUE}) :
            IF listed
            THEN /\ revisions' = found
                 /\ stack' = Pop(stack)
                 /\ pc' = "meta_ret"
                 /\ error' = error
            ELSE /\ Raise("KeyError")
                 /\ UNCHANGED <<revisions, stack>>
    /\ inflight' = Tail(inflight)
    /\ UNCHANGED <<wiki, log, start_date, freq, mi, index, dirs, files, dates, di,
                   historical_components, components_dict, ci, warnings, when,
                   page_title, rvdir, rvstart, rvlimit, revision, table, df>>

(***************************************************************************)
(* get_index_components_at                                                 *)
(***************************************************************************)
\* Lines 90-93: default date, page title, call get_revisions_metadata.
AtEnter ==
    /\ pc = "at"
    /\ when' = IF when = <<>> THEN <<today>> ELSE when
    /\ page_title' = wikipedia_pages[index]
    /\ rvdir' = "older"
    /\ rvstart' = when'
    /\ rvlimit' = 1
    /\ stack' = Append(stack, "get_revisions_metadata")
    /\ pc' = "meta"
    /\ UNCHANGED <<wiki, error, inflight, log, start_date, freq, mi, index, dirs,
                   files, dates, di, historical_components, components_dict, ci,
                   warnings, revisions, revision, table, df>>

\* revisions[0] replaced by a default when the list is empty.
AtRevisionDefault ==
    /\ pc = "meta_ret"
    /\ Top(stack) = "get_index_components_at"
    /\ LET r == IF revisions = <<>> THEN [revid |-> 0, timestamp |-> isoformat(0)]
                ELSE revisions[1]
           q == page_url(page_title, r.revid)
       IN /\ revision' = <<r>>
          /\ inflight' = Append(inflight, q)
          /\ log' = Append(log, q)
    /\ pc' = "page_wait"
    /\ UNCHANGED <<wiki, stack, error, start_date, freq, mi, index, dirs, files,
                   dates, di, historical_components, components_dict, ci,
                   warnings, when, page_title, rvdir, rvstart, rvlimit,
                   revisions, table, df>>

\* Lines 94-96: revisions[0], then pd.read_html sends the GET for its revid.
AtRevision ==
    /\ pc = "meta_ret"
    /\ Top(stack) = "get_index_components_at"
    /\ IF revisions = <<>>
       THEN /\ Raise("IndexError")
            /\ UNCHANGED <<revision, inflight, log>>
       ELSE /\ revision' = <<revisions[1]>>
            /\ LET q == page_url(page_title, revisions[1].revid)
               IN /\ inflight' = Append(inflight, q)
                  /\ log' = Append(log, q)
            /\ pc' = "page_wait"
            /\ error' = error
    /\ UNCHANGED <<wiki, stack, start_date, freq, mi, index, dirs, files, dates,
                   di, historical_components, components_dict, ci, warnings,
                   when, page_title, rvdir, rvstart, rvlimit, revisions, table, df>>

\* The page fetch inside try/except: a page without tables ends the loop over
\* the dates and the dict built so far is returned.
PageReceiveCaught ==
    /\ pc = "page_wait"
    /\ inflight # <<>>
    /\ LET doc == HtmlOf(wiki[inflight[1].titles], inflight[1].oldid)
       IN IF doc = <<>>
          THEN /\ Top(stack) = "get_index_components_at"
               /\ Caller(stack) = "get_index_components_history"
               /\ stack' = Pop(stack)
               /\ di' = Len(dates) + 1
               /\ pc' = "hist_loop"
               /\ table' = table
          ELSE /\ table' = doc
               /\ pc' = "scan"
               /\ UNCHANGED <<stack, di>>
    /\ inflight' = Tail(inflight)
    /\ UNCHANGED <<wiki, error, log, start_date, freq, mi, index, dirs, files,
                   dates, historical_components, components_dict, ci,
                   warnings, when, page_title, rvdir, rvstart, rvlimit,
                   revisions, revision, df>>

\* Line 96: the page arrives and pd.read_html parses its tables; it raises
\* ValueError("No tables found") for a page without tables.
PageReceive ==
    /\ pc = "page_wait"
    /\ inflight # <<>>
    /\ LET doc == HtmlOf(wiki[inflight[1].titles], inflight[1].oldid)
       IN IF doc = <<>>
          THEN /\ Raise("ValueError")
               /\ table' = table
          ELSE /\ table' = doc
               /\ pc' = "scan"
               /\ error' = error
    /\ inflight' = Tail(inflight)
    /\ UNCHANGED <<wiki, stack, log, start_date, freq, mi, index, dirs, files,
                   dates, di, historical_components, components_dict, ci,
                   warnings, when, page_title, rvdir, rvstart, rvlimit,
                   revisions, revision, df>>

\* Lines 98-106: scan the tables, name the index, sort, return.  With no table
\* to scan the name df would be unbound.
AtSelect ==
    /\ pc = "scan"
    /\ IF table = <<>>
       THEN /\ Raise("UnboundLocalError")
            /\ UNCHANGED <<df, stack>>
       ELSE /\ df' = <<SelectTable(table)>>
            /\ stack' = Pop(stack)
            /\ pc' = "at_ret"
            /\ error' = error
    /\ UNCHANGED <<wiki, inflight, log, start_date, freq, mi, index, dirs, files,
                   dates, di, historical_components, components_dict, ci,
                   warnings, when, page_title, rvdir, rvstart, rvlimit,
                   revisions, revision, table>>

(***************************************************************************)
(* get_index_components_history                                            *)
(***************************************************************************)
\* Lines 119-122: end_date defaults to today; the sample dates; an empty dict.
HistEnter ==
    /\ pc = "history"
    /\ dates' = date_range(start_date, today, freq)
    /\ historical_components' = <<>>
    /\ di' = 1
    /\ pc' = "hist_loop"
    /\ UNCHANGED <<wiki, stack, error, inflight, log, start_date, freq, mi, index,
                   dirs, files, components_dict, ci, warnings, when, page_title,
                   rvdir, rvstart, rvlimit, revisions, revision, table, df>>

\* Lines 123-124: the next date; call get_index_components_at(index, date).
HistNext ==
    /\ pc = "hist_loop"
    /\ di <= Len(dates)
    /\ when' = <<dates[di]>>
    /\ stack' = Append(stack, "get_index_components_at")
    /\ pc' = "at"
    /\ UNCHANGED <<wiki, error, inflight, log, start_date, freq, mi, index, dirs,
                   files, dates, di, historical_components, components_dict, ci,
                   warnings, page_title, rvdir, rvstart, rvlimit, revisions,
                   revision, table, df>>

\* The entry keyed by the calendar day: str(date.date()).
HistRecordByDay ==
    /\ pc = "at_ret"
    /\ Top(stack) = "get_index_components_history"
    /\ historical_components' =
           Put(historical_components, <<FormattedDate(DateStr(dates[di])), 0>>,
               df[1].index)
    /\ di' = di + 1
    /\ pc' = "hist_loop"
    /\ UNCHANGED <<wiki, stack, error, inflight, log, start_date, freq, mi, index,
                   dirs, files, dates, components_dict, ci, warnings, when,
                   page_title, rvdir, rvstart, rvlimit, revisions, revision,
                   table, df>>

\* Line 125: historical_components[str(date)] = list(components_at_date.index)
HistRecord ==
    /\ pc = "at_ret"
    /\ Top(stack) = "get_index_components_history"
    /\ historical_components' =
           Put(historical_components, DateStr(dates[di]), df[1].index)
    /\ di' = di + 1
    /\ pc' = "hist_loop"
    /\ UNCHANGED <<wiki, stack, error, inflight, log, start_date, freq, mi, index,
                   dirs, files, dates, components_dict, ci, warnings, when,
                   page_title, rvdir, rvstart, rvlimit, revisions, revision,
                   table, df>>

\* Line 126, and lines 157-158 of the caller: the dict is returned, and
\* __main__ hands it to components_to_separate_csv.
HistReturn ==
    /\ pc = "hist_loop"
    /\ di > Len(dates)
    /\ components_dict' = historical_components
    /\ IF Caller(stack) = "__main__"
       THEN /\ stack' = Append(Pop(stack), "components_to_separate_csv")
            /\ ci' = 1
            /\ pc' = "csv_loop"
       ELSE /\ stack' = Pop(stack)
            /\ ci' = ci
            /\ pc' = "done"
    /\ UNCHANGED <<wiki, error, inflight, log, start_date, freq, mi, index, dirs,
                   files, dates, di, historical_components, warnings, when,
                   page_title, rvdir, rvstart, rvlimit, revisions, revision,
                   table, df>>

(***************************************************************************)
(* components_to_separate_csv                                              *)
(***************************************************************************)
AllStr(l) == \A k \in 1..Len(l) : IsStr(l[k])

\* open(path, 'w') and f.write(content): the file is created or replaced.
WriteFile(fs, path, content) ==
    {f \in fs : f.path # path} \cup {[path |-> path, content |-> content]}

\* The loop body without the isinstance check: ','.join raises TypeError on a
\* component that is not a str.
CsvStepNoCheck ==
    /\ pc = "csv_loop"
    /\ ci <= Len(components_dict)
    /\ LET date == components_dict[ci].key
           components_list == components_dict[ci].value
       IN IF index \notin dirs
          THEN /\ Raise("FileNotFoundError")
               /\ UNCHANGED <<files, ci>>
          ELSE IF AllStr(components_list)
          THEN /\ files' = WriteFile(files, Path(index, FormattedDate(date)),
                                     Join(components_list))
               /\ ci' = ci + 1
               /\ UNCHANGED <<pc, error>>
          ELSE /\ files' = WriteFile(files, Path(index, FormattedDate(date)), <<>>)
               /\ Raise("TypeError")
               /\ ci' = ci
    /\ UNCHANGED <<wiki, stack, inflight, log, start_date, freq, mi, index, dirs,
                   dates, di, historical_components, components_dict, warnings,
                   when, page_title, rvdir, rvstart, rvlimit, revisions,
                   revision, table, df>>

\* Lines 132-140, one pair of components.items(): write the file when every
\* component is a str, print the warning otherwise.  open() raises
\* FileNotFoundError when the directory does not exist.
CsvStep ==
    /\ pc = "csv_loop"
    /\ ci <= Len(components_dict)
    /\ LET date == components_dict[ci].key
           components_list == components_dict[ci].value
       IN IF AllStr(components_list)
          THEN IF index \in dirs
               THEN /\ files' = WriteFile(files, Path(index, FormattedDate(date)),
                                          Join(components_list))
                    /\ ci' = ci + 1
                    /\ UNCHANGED <<pc, error, warnings>>
               ELSE /\ Raise("FileNotFoundError")
                    /\ UNCHANGED <<files, ci, warnings>>
          ELSE /\ warnings' = Append(warnings, date)
               /\ ci' = ci + 1
               /\ UNCHANGED <<pc, error, files>>
    /\ UNCHANGED <<wiki, stack, inflight, log, start_date, freq, mi, index, dirs,
                   dates, di, historical_components, components_dict, when,
                   page_title, rvdir, rvstart, rvlimit, revisions, revision,
                   table, df>>

\* The loop ends and the function returns; __main__ goes on to the next index.
CsvReturn ==
    /\ pc = "csv_loop"
    /\ ci > Len(components_dict)
    /\ stack' = Pop(stack)
    /\ IF Caller(stack) = "__main__"
       THEN mi' = mi + 1 /\ pc' = "main"
       ELSE mi' = mi /\ pc' = "done"
    /\ UNCHANGED <<wiki, error, inflight, log, start_date, freq, index, dirs,
                   files, dates, di, historical_components, components_dict, ci,
                   warnings, when, page_title, rvdir, rvstart, rvlimit,
                   revisions, revision, table, df>>

(***************************************************************************)
(* __main__                                                                *)
(***************************************************************************)
\* Lines 145-157: the next index; os.makedirs(index, exist_ok=True); call
\* get_index_components_history(index, start_date, freq).
MainNext ==
    /\ pc = "main"
    /\ mi <= Len(IndexKeys)
    /\ index' = IndexKeys[mi]
    /\ dirs' = dirs \cup {IndexKeys[mi]}
    /\ stack' = Append(stack, "get_index_components_history")
    /\ pc' = "history"
    /\ UNCHANGED <<wiki, error, inflight, log, start_date, freq, mi, files, dates,
                   di, historical_components, components_dict, ci, warnings,
                   when, page_title, rvdir, rvstart, rvlimit, revisions,
                   revision, table, df>>

\* The loop over wikipedia_pages.keys() ends.
MainExit ==
    /\ pc = "main"
    /\ mi > Len(IndexKeys)
    /\ stack' = Pop(stack)
    /\ pc' = "done"
    /\ UNCHANGED <<wiki, error, inflight, log, start_date, freq, mi, index, dirs,
                   files, dates, di, historical_components, components_dict, ci,
                   warnings, when, page_title, rvdir, rvstart, rvlimit,
                   revisions, revision, table, df>>

(***************************************************************************)
(* Specifications.                                                         *)
(***************************************************************************)
\* The wikis of the runs: any set of revision ticks for each page, the
\* documents of its revisions starting anywhere in PageDocs.
Wikis ==
    {[p \in Pages |-> History(S[p], off[p])] :
        S \in [Pages -> SUBSET Times],
        off \in [Pages -> 0..(Len(PageDocs) - 1)]}

\* The whole program.  The reference run passes start_date='2015-01-01' and
\* freq='QS'; here any start tick and any step up to one day.
Init ==
    /\ wiki \in Wikis
    /\ pc = "main"
    /\ stack = <<"__main__">>
    /\ error = ""
    /\ inflight = <<>> /\ log = <<>>
    /\ start_date \in Times /\ freq \in 1..TicksPerDay
    /\ mi = 1 /\ index = ""
    /\ dirs = {} /\ files = {}
    /\ dates = <<>> /\ di = 0
    /\ historical_components = <<>> /\ components_dict = <<>>
    /\ ci = 0 /\ warnings = <<>>
    /\ when = <<>>
    /\ page_title = "" /\ rvdir = "" /\ rvstart = <<>> /\ rvlimit = 0
    /\ revisions = <<>> /\ revision = <<>>
    /\ table = <<>> /\ df = <<>>

Next ==
    \/ MainNext \/ MainExit
    \/ HistEnter \/ HistNext \/ HistRecord \/ HistReturn
    \/ AtEnter \/ AtRevision \/ PageReceive \/ AtSelect
    \/ MetaSend \/ MetaReceive
    \/ CsvStep \/ CsvReturn

Spec == Init /\ [][Next]_vars

\* The rvlimit values of the direct calls.
Limits == {1, 2}

\* Direct calls of the lookup: get_revisions_metadata(page_title, rvstart,
\* rvdir, rvlimit) with any arguments, or get_index_components_at(index, when).
InitRevisions ==
    /\ wiki \in Wikis
    /\ \/ /\ pc = "meta"
          /\ stack = <<"get_revisions_metadata">>
          /\ index = "" /\ when = <<>>
          /\ page_title \in Pages
          /\ rvdir \in {"older", "newer"}
          /\ rvstart \in {<<>>} \cup {<<t>> : t \in Times}
          /\ rvlimit \in Limits
       \/ /\ pc = "at"
          /\ stack = <<"get_index_components_at">>
          /\ index \in DOMAIN wikipedia_pages
          /\ when \in {<<>>} \cup {<<t>> : t \in Times}
          /\ page_title = "" /\ rvdir = "" /\ rvstart = <<>> /\ rvlimit = 0
    /\ error = ""
    /\ inflight = <<>> /\ log = <<>>
    /\ start_date = 0 /\ freq = 1
    /\ mi = 0
    /\ dirs = {} /\ files = {}
    /\ dates = <<>> /\ di = 0
    /\ historical_components = <<>> /\ components_dict = <<>>
    /\ ci = 0 /\ warnings = <<>>
    /\ revisions = <<>> /\ revision = <<>>
    /\ table = <<>> /\ df = <<>>

NextRevisions == AtEnter \/ MetaSend \/ MetaReceive \/ AtRevision

SpecRevisions == InitRevisions /\ [][NextRevisions]_vars

\* get_index_components_at(index) on a page whose one revision holds any
\* document of Docs.
InitTable ==
    /\ \E doc \in Docs :
         wiki = [p \in Pages |->
                    <<[revid |-> 1, timestamp |-> isoformat(0), html |-> doc]>>]
    /\ pc = "at"
    /\ stack = <<"get_index_components_at">>
    /\ index = "SPX" /\ when = <<>>
    /\ page_title = "" /\ rvdir = "" /\ rvstart = <<>> /\ rvlimit = 0
    /\ error = ""
    /\ inflight = <<>> /\ log = <<>>
    /\ start_date = 0 /\ freq = 1
    /\ mi = 0
    /\ dirs = {} /\ files = {}
    /\ dates = <<>> /\ di = 0
    /\ historical_components = <<>> /\ components_dict = <<>>
    /\ ci = 0 /\ warnings = <<>>
    /\ revisions = <<>> /\ revision = <<>>
    /\ table = <<>> /\ df = <<>>

NextTable ==
    AtEnter \/ MetaSend \/ MetaReceive \/ AtRevision \/ PageReceive \/ AtSelect

SpecTable == InitTable /\ [][NextTable]_vars

\* The symbol lists get_index_components_at can return: list(df.index).
ExtractedLists == {SelectTable(doc).index : doc \in Docs \ {<<>>}}

\* components_to_separate_csv(components, index), in the directory __main__
\* made for the index, on any dict get_index_components_history can return:
\* the keys are the str() of the dates of a date range, in order, the values
\* lists the extractor returns.
InitCsv ==
    /\ \E s \in Times, f \in 1..TicksPerDay :
         LET ds == date_range(s, today, f)
         IN \E l \in [1..Len(ds) -> ExtractedLists] :
               components_dict =
                  [k \in 1..Len(ds) |-> [key |-> DateStr(ds[k]), value |-> l[k]]]
    /\ wiki = [p \in Pages |-> <<>>]
    /\ pc = "csv_loop"
    /\ stack = <<"components_to_separate_csv">>
    /\ index = "SPX"
    /\ dirs = {"SPX"} /\ files = {}
    /\ ci = 1 /\ warnings = <<>>
    /\ error = ""
    /\ inflight = <<>> /\ log = <<>>
    /\ start_date = 0 /\ freq = 1
    /\ mi = 0
    /\ dates = <<>> /\ di = 0
    /\ historical_components = <<>>
    /\ when = <<>>
    /\ page_title = "" /\ rvdir = "" /\ rvstart = <<>> /\ rvlimit = 0
    /\ revisions = <<>> /\ revision = <<>>
    /\ table = <<>> /\ df = <<>>

NextCsv == CsvStep \/ CsvReturn

SpecCsv == InitCsv /\ [][NextCsv]_vars

(***************************************************************************)
(* Properties.                                                             *)
(***************************************************************************)
\* The tick of a timestamp of the wiki.
Tick(stamp) == stamp[1] * TicksPerDay + stamp[2]

\* Positions in hist of the revisions on the dir side of tick t.
OnSide(hist, dir, t) ==
    {k \in 1..Len(hist) :
        IF dir = "older" THEN Tick(hist[k].timestamp) <= t
        ELSE Tick(hist[k].timestamp) >= t}

\* r is the revision of hist nearest to tick t on the dir side of it.
Nearest(hist, dir, t, r) ==
    \E k \in OnSide(hist, dir, t) :
        /\ r.revid = hist[k].revid
        /\ r.timestamp = hist[k].timestamp
        /\ \A j \in OnSide(hist, dir, t) :
              IF dir = "older"
              THEN Tick(hist[j].timestamp) <= Tick(hist[k].timestamp)
              ELSE Tick(hist[j].timestamp) >= Tick(hist[k].timestamp)

\* C1: the first revision get_revisions_metadata returns for rvstart = date is
\* the most recent one at or before the date with rvdir = 'older' and the
\* earliest one at or after it with rvdir = 'newer'; the revision
\* get_index_components_at goes on with is the most recent one at or before
\* its date, never a later one; and a lookup with a revision on the asked side
\* returns one.
C1_NearestRevision ==
    /\ (pc = "meta_ret" /\ rvstart # <<>> /\ revisions # <<>>)
          => Nearest(wiki[page_title], rvdir, rvstart[1], revisions[1])
    /\ (pc \in {"meta_ret", "raised"} /\ rvstart # <<>>
            /\ OnSide(wiki[page_title], rvdir, rvstart[1]) # {})
          => (pc = "meta_ret" /\ revisions # <<>>)
    /\ revision # <<>>
          => /\ Nearest(wiki[wikipedia_pages[index]], "older", when[1], revision[1])
             /\ Tick(revision[1].timestamp) <= when[1]

\* get_index_components_at has picked a revision that has both an older
\* revision and a revision after the date next to it.
C1_Witness ==
    /\ revision # <<>>
    /\ \E k \in 1..Len(wiki[page_title]) :
          Tick(wiki[page_title][k].timestamp) > when[1]
    /\ \E k \in 1..Len(wiki[page_title]) :
          Tick(wiki[page_title][k].timestamp) < Tick(revision[1].timestamp)

\* A table with one of the two recognized symbol columns.
Recognized(t) == "Symbol" \in t.columns \/ "Ticker symbol" \in t.columns

Count(l, c) == Cardinality({k \in 1..Len(l) : l[k] = c})

\* l and m hold the same cells, each as many times.
SameCells(l, m) ==
    /\ Len(l) = Len(m)
    /\ \A k \in 1..Len(l) : Count(l, l[k]) = Count(m, l[k])

\* C2: when the document has a table with a 'Symbol' or 'Ticker symbol' column,
\* the DataFrame returned holds the rows of the first such table: its symbol
\* cells are the index and its other columns the columns.
C2_FirstMatchingTable ==
    (pc = "at_ret" /\ \E j \in 1..Len(table) : Recognized(table[j]))
       => LET j == CHOOSE i \in 1..Len(table) :
                      /\ Recognized(table[i])
                      /\ \A h \in 1..(i - 1) : ~Recognized(table[h])
          IN /\ SameCells(df[1].index, table[j].cells)
             /\ df[1].columns = table[j].columns \ {"Symbol", "Ticker symbol"}
             /\ df[1].name = "Symbol"

\* A DataFrame was returned for a document with two tables with a symbol
\* column that hold different rows.
C2_Witness ==
    /\ pc = "at_ret"
    /\ Len(table) >= 2
    /\ Recognized(table[1]) /\ Recognized(table[2])
    /\ ~SameCells(table[1].cells, table[2].cells)

\* C3 (the claim): when no table of the document has a 'Symbol' or
\* 'Ticker symbol' column the extraction fails; no DataFrame is returned.
C3_NoMatchingTableFails ==
    ~(pc = "at_ret" /\ \A j \in 1..Len(table) : ~Recognized(table[j]))

\* C8 (the claim): the DataFrame returned for a matched table has no symbol
\* twice and no empty symbol.
C8_RejectsMalformedTable ==
    (pc = "at_ret" /\ \E j \in 1..Len(table) : Recognized(table[j]))
       => \A k \in 1..Len(df[1].index) :
             /\ IsStr(df[1].index[k])
             /\ Count(df[1].index, df[1].index[k]) = 1

\* The date get_index_components_at looks up.
Target == IF when = <<>> THEN today ELSE when[1]

\* get_index_components_at was called for a date before the first revision of
\* the page.
BeforeFirst ==
    /\ index # ""
    /\ OnSide(wiki[wikipedia_pages[index]], "older", Target) = {}

\* C4 (the claim): a lookup for a date before the first revision fails with
\* NotFoundError.
C4_FailsWithNotFoundError ==
    (BeforeFirst /\ pc = "raised") => error = "NotFoundError"

\* C4 (amended): a lookup for a date before the first revision ends the call
\* with KeyError (the answer has no 'revisions' entry) or IndexError (an empty
\* 'revisions' list); no revision is picked and no page is fetched.
C4_FailsWithLookupError ==
    BeforeFirst =>
        /\ pc \in {"at", "meta", "meta_wait", "meta_ret", "raised"}
        /\ pc = "meta_ret" => revisions = <<>>
        /\ pc = "raised" => error \in {"KeyError", "IndexError"}
        /\ revision = <<>>
        /\ \A k \in 1..Len(log) : log[k].url # "index.php"

\* The lookup failed on a page that has revisions, all after the date.
C4_Witness ==
    /\ BeforeFirst
    /\ pc = "raised"
    /\ wiki[wikipedia_pages[index]] # <<>>

InStack(f) == \E k \in 1..Len(stack) : stack[k] = f

\* The requests sent so far for the page of the index being processed.
PageLog == SelectSeq(log, LAMBDA q : q.titles = wikipedia_pages[index])

\* get_index_components_history is running for index and has its dates.
InHistory == InStack("get_index_components_history") /\ pc # "history"

\* The lookup or the extraction for tick t of the page of i fails: no revision
\* at or before t, or the revision of t holds a document without tables.
FailsAt(i, t) ==
    LET hist == wiki[wikipedia_pages[i]]
        side == OnSide(hist, "older", t)
    IN \/ side = {}
       \/ \E k \in side :
             /\ \A j \in side : j <= k
             /\ hist[k].html = <<>>

\* C5: when the lookup or the extraction fails for a sample date, the call of
\* get_index_components_history never returns (no dict reaches the caller, so
\* components_to_separate_csv is not called and no file of the index is
\* written), no date after the failing one is queried, and the program has
\* stopped once the exception is raised.
C5_FailureAbortsRun ==
    (InHistory /\ \E k \in 1..Len(dates) : FailsAt(index, dates[k]))
       => LET kf == CHOOSE k \in 1..Len(dates) :
                       /\ FailsAt(index, dates[k])
                       /\ \A h \in 1..(k - 1) : ~FailsAt(index, dates[h])
          IN /\ \A f \in files : f.path.dir # index
             /\ pc \notin {"csv_loop", "main", "done"}
             /\ di <= kf
             /\ \A k \in 1..Len(PageLog) :
                   PageLog[k].url = "api.php"
                      => Tick(PageLog[k].rvstart[1]) <= dates[kf]
             /\ pc = "raised"
                   => di = kf /\ inflight = <<>> /\ ~ENABLED Next

\* The second index failed on its second date or later, after the files of the
\* first index were written.
C5_Witness ==
    /\ pc = "raised"
    /\ mi = 2 /\ di >= 2
    /\ \E f \in files : f.path.dir = IndexKeys[1]

\* C10: at most one request is in flight; the requests for the page of the
\* index alternate metadata query for the next sample date and page fetch for
\* the revision id that query returned; the k-th metadata query is sent only
\* after k-1 entries are recorded; the entries are keyed by the dates in
\* generation order, and the dict returned has one entry for each date.
C10_SequentialInOrder ==
    /\ Len(inflight) <= 1
    /\ InHistory =>
          /\ \A k \in 1..Len(PageLog) :
                IF k % 2 = 1
                THEN /\ PageLog[k].url = "api.php"
                     /\ PageLog[k].rvdir = "older"
                     /\ PageLog[k].rvstart = <<isoformat(dates[(k + 1) \div 2])>>
                     /\ Len(historical_components) >= (k - 1) \div 2
                ELSE /\ PageLog[k].url = "index.php"
                     /\ ApiRevisions(wiki[wikipedia_pages[index]], PageLog[k - 1]) # <<>>
                     /\ PageLog[k].oldid =
                           ApiRevisions(wiki[wikipedia_pages[index]],
                                        PageLog[k - 1])[1].revid
          /\ Len(historical_components) <= Len(PageLog) \div 2
          /\ Len(historical_components) >= (Len(PageLog) - 1) \div 2
          /\ \A k \in 1..Len(historical_components) :
                historical_components[k].key = DateStr(dates[k])
    /\ (pc = "csv_loop" /\ InStack("__main__")) =>
          /\ Len(components_dict) = Len(dates)
          /\ \A k \in 1..Len(dates) : components_dict[k].key = DateStr(dates[k])

\* get_index_components_history returned a dict of at least two dates, two of
\* them of the same day.
C10_Witness ==
    /\ pc = "csv_loop" /\ InStack("__main__")
    /\ Len(components_dict) >= 2
    /\ FormattedDate(components_dict[1].key) = FormattedDate(components_dict[2].key)

\* The pairs of components_dict before position n whose components are all
\* str and whose file is path.
StrPairsAt(path, n) ==
    {k \in 1..(n - 1) :
        /\ k <= Len(components_dict)
        /\ AllStr(components_dict[k].value)
        /\ Path(index, FormattedDate(components_dict[k].key)) = path}

\* C6: components_to_separate_csv never fails on a pair with a component that
\* is not a str and writes nothing for it: the files on disk are those of the
\* all-str pairs processed so far, each holding what the last such pair of its
\* name wrote, and every all-str pair before and after it has its file.
C6_SkipsNonStringPairs ==
    InStack("components_to_separate_csv") \/ pc = "done" =>
        /\ pc # "raised"
        /\ \A f \in files :
              LET ks == StrPairsAt(f.path, ci)
              IN /\ ks # {}
                 /\ \E k \in ks :
                       /\ \A h \in ks : h <= k
                       /\ f.content = Join(components_dict[k].value)
        /\ \A k \in 1..(ci - 1) :
              (k <= Len(components_dict) /\ AllStr(components_dict[k].value))
                 => \E f \in files :
                       f.path = Path(index, FormattedDate(components_dict[k].key))
        /\ Len(warnings) =
              Cardinality({k \in 1..(ci - 1) :
                              /\ k <= Len(components_dict)
                              /\ ~AllStr(components_dict[k].value)})

\* The call returned after a pair with a component that is not a str, between
\* two pairs of symbols that were written.
C6_Witness ==
    /\ pc = "done"
    /\ Len(components_dict) = 3
    /\ components_dict[1].value # <<>> /\ AllStr(components_dict[1].value)
    /\ ~AllStr(components_dict[2].value)
    /\ components_dict[3].value # <<>> /\ AllStr(components_dict[3].value)
    /\ Cardinality(files) = 2

\* content.split(','): the fields between the commas.
RECURSIVE Split(_)
Split(s) ==
    IF \A k \in 1..Len(s) : s[k] # ","
    THEN <<s>>
    ELSE LET c == CHOOSE k \in 1..Len(s) :
                      s[k] = "," /\ \A h \in 1..(k - 1) : s[h] # ","
         IN <<SubSeq(s, 1, c - 1)>> \o Split(SubSeq(s, c + 1, Len(s)))

\* C7 (the claim): the file just written for an all-str symbol list, split on
\* commas, is that list, and the list is ascending without a symbol twice.
C7_RoundTrip ==
    (pc = "csv_loop" /\ ci > 1 /\ AllStr(components_dict[ci - 1].value))
       => LET l == components_dict[ci - 1].value
              path == Path(index, FormattedDate(components_dict[ci - 1].key))
          IN \A f \in files :
                f.path = path =>
                   /\ Split(f.content) = [k \in 1..Len(l) |-> l[k].v]
                   /\ \A k \in 1..(Len(l) - 1) : StrLess(l[k].v, l[k + 1].v)

\* C9 (the claim): after the call every all-str pair has its own file holding
\* its symbols joined by commas, and there are as many files as such pairs.
C9_OneFilePerPair ==
    pc = "done" =>
        /\ \A k \in 1..Len(components_dict) :
              AllStr(components_dict[k].value)
                 => \E f \in files :
                       /\ f.path = Path(index, FormattedDate(components_dict[k].key))
                       /\ f.content = Join(components_dict[k].value)
        /\ Cardinality(files) =
              Cardinality({k \in 1..Len(components_dict) :
                              AllStr(components_dict[k].value)})

====
